---- MODULE Spec2Model ----
(***************************************************************************)
(* Model of the audio-timeline coordinator of tuxis: src/audio.js (play /  *)
(* pause handler, cue triggers, lyrics, explosion and return animations,   *)
(* frequency averaging) and the scene controller and frame loop of         *)
(* src/main.js.                                                            *)
(*                                                                         *)
(* Time is wall-clock milliseconds (Date.now()).  One browser frame is     *)
(* modelled as: AdvanceTime (the clock moves), then Animate (main.js       *)
(* animate), then one ScatterCallback per live animateBlowApart            *)
(* requestAnimationFrame chain; user events arrive between frames.         *)
(*                                                                         *)
(* Fixed-point conventions: positions and distances are in 1/1000 scene    *)
(* units, angles in micro-radians, eased progress in 1/1000.               *)
(***************************************************************************)
EXTENDS Integers, Sequences, FiniteSets, TLC

(***************************************************************************)
(* Program constants                                                       *)
(***************************************************************************)
sceneTransitionTime == 5000
explosionTime == 66000
returnToPositionTime == 135000
returnAnimationDuration == 20000
\* seconds * 1000: progress variables of the scene controller are kept in
\* milliseconds of their own duration (progress p is value / duration)
doorAnimationDuration == 2000
TRANSITION_DURATION == 5000

\* lyrics[s][l] is the cue time of line l of stanza s (1-based here,
\* 0-based in the variables, as in the source)
lyrics ==
    << << 26500, 32500, 38500, 43500 >>,
       << 80000, 86000, 92000, 99000 >>,
       << 134000, 140000, 146000, 151000 >> >>

(***************************************************************************)
(* Bounds of the model                                                     *)
(***************************************************************************)
MaxSessions == 2
MaxPending == 1
MaxLog == 4
NumObjects == 2
NumBins == 3
MaxArg == 4

\* the wall-clock instants (ms after page load) at which the cue timeline
\* is offered a frame: the cues of a session started at 0, and instants from
\* which a restarted session reaches its own cues (66000 + 66000 <= 135000,
\* 140000 + 66000 = 206000, 140000 + 135000 = 275000)
CueInstants ==
    {5000, 5001, 26500, 66000, 135000, 140000, 155000, 206000, 275000}

\* magnitudes offered for a bin of the Uint8Array the analyser fills
BinChoices == {0, 100, 255}

Null == -1
PI == 3141593

Objects == 1..NumObjects

\* rest pose of the scene objects the explosion may scatter
InitPosition(o) == IF o = 1 THEN 400 ELSE 1500 * o
InitRotation(o) == IF o = 1 THEN 0 ELSE 500000

VARIABLES
    now,                        \* Date.now()
    pc,                         \* "idle" | "frame" | "raf"
    audioLoaded,                \* audioAnalyser / lyricsContainer / button exist
    audioData,                  \* the analyser's frequency buffer
    averageCall,                \* the last getAverageFrequency call and its results
    ctxSuspended,               \* audioListener.context.state === 'suspended'
    pendingResume,              \* unresolved context.resume() promises
    isAudioPlaying,
    audioStartTime,
    sceneTransitionTriggered,
    explosionTriggered,
    returnTriggered,
    preventSecondExplosion,
    pauseRecord,                \* what had fired when playback was last paused
    currentStanzaIndex,
    currentLineIndex,
    stanzaContainer,            \* stanza whose caption group the variable holds
    stanzaInDom,                \* stanzaContainer.parentNode is set
    leftInDom,                  \* groups in lyricsContainer the variable has let go
    stanzaFadeTimeout,          \* due time of the pending 6000 ms fade timer
    removeTimeouts,             \* due times of the pending 1000 ms removal timers
    oldStanzaTimeouts,          \* due times of the pending 800 ms removal timers
    sceneState,                 \* main.js scene state variables
    transitionRequest,          \* the last transition request of this frame interval
    lastTime,
    objects,                    \* scene graph: transform, parent, userData
    blownApartObjects,
    originalObjectStates,
    returnAnimationStartTime,
    returnElapsed,              \* elapsed of the last updateReturnAnimation call
    isReturnAnimationActive,
    scatterChains,              \* live animateBlowApart callback chains
    scatterPending,             \* of these, still to run in this frame
    materials,                  \* material colour, emissive, opacity per mesh
    userData,                   \* userData.initialColor / Emissive / Opacity per mesh
    initialColorsStored,        \* scene.userData.initialColorsStored
    effectCall,                 \* the last applyGlobalAudioEffect call: its levels
    session,                    \* number of playback starts so far
    cueLog,                     \* cue actions invoked since the last playback start
    tickLog                     \* lyric events of the last Animate

vars == << now, pc, audioLoaded, audioData, averageCall, ctxSuspended, pendingResume, isAudioPlaying,
           audioStartTime, sceneTransitionTriggered, explosionTriggered,
           returnTriggered, preventSecondExplosion, pauseRecord, currentStanzaIndex,
           currentLineIndex, stanzaContainer, stanzaInDom, leftInDom,
           stanzaFadeTimeout,
           removeTimeouts, oldStanzaTimeouts, sceneState, transitionRequest,
           lastTime, objects,
           blownApartObjects, originalObjectStates, returnAnimationStartTime,
           returnElapsed,
           isReturnAnimationActive, scatterChains, scatterPending, materials,
           userData, initialColorsStored, effectCall, session, cueLog, tickLog >>

Min(a, b) == IF a < b THEN a ELSE b
Max(a, b) == IF a > b THEN a ELSE b
Abs(a) == IF a < 0 THEN -a ELSE a
Sign(a) == IF a > 0 THEN 1 ELSE IF a < 0 THEN -1 ELSE 0

(***************************************************************************)
(* main.js: scene controller                                               *)
(***************************************************************************)
\* THREE.MathUtils.smoothstep(x, 0, 1) with x = p / duration, result in 1/1000
smoothstep(p, duration) ==
    LET x == (Min(Max(p, 0), duration) * 1000) \div duration
    IN (x * x * (3000 - 2 * x)) \div 1000000

\* lerp(doorRotation.start, doorRotation.end, smoothstep(doorOpeningProgress))
doorRotationValue(p) == 0 - ((PI \div 2) * smoothstep(p, doorAnimationDuration)) \div 1000

\* a transition request that arrived while a transition was in flight, by
\* where it came from; a request that starts a transition leaves no record
NoRequest == [source |-> "none", inFlight |-> FALSE]
Request(source, inFlight) ==
    IF inFlight THEN [source |-> source, inFlight |-> TRUE] ELSE NoRequest

\* mutant: only a request that names the current scene is taken
transitionToSceneSame(s, sceneName) ==
    IF sceneName # s.currentScene \/ s.isTransitioning
    THEN s
    ELSE [s EXCEPT !.nextScene = sceneName,
                   !.transitionProgress = 0,
                   !.isTransitioning = TRUE,
                   !.doorOpening = TRUE,
                   !.doorOpeningProgress = 0]

\* mutant: a request is taken while a transition is in flight
transitionToSceneInFlight(s, sceneName) ==
    IF sceneName = s.currentScene
    THEN s
    ELSE [s EXCEPT !.nextScene = sceneName,
                   !.transitionProgress = 0,
                   !.isTransitioning = TRUE,
                   !.doorOpening = TRUE,
                   !.doorOpeningProgress = 0]

transitionToScene(s, sceneName) ==
    IF sceneName = s.currentScene \/ s.isTransitioning
    THEN s
    ELSE [s EXCEPT !.nextScene = sceneName,
                   !.transitionProgress = 0,
                   !.isTransitioning = TRUE,
                   !.doorOpening = TRUE,
                   !.doorOpeningProgress = 0]

\* mutant: the frame in which the door reaches its end leaves doorOpening set
updateSceneTransitionDoorLate(s, deltaTime) ==
    IF ~s.isTransitioning
    THEN s
    ELSE
      LET door1 == s.doorOpeningProgress + deltaTime
          doorDone == door1 >= doorAnimationDuration
          doorP == IF s.doorOpening
                   THEN (IF doorDone THEN doorAnimationDuration ELSE door1)
                   ELSE s.doorOpeningProgress
          doorO == s.doorOpening /\ s.doorOpeningProgress < doorAnimationDuration
          camera == IF s.doorOpening THEN 2 * doorP > doorAnimationDuration ELSE TRUE
          tp == s.transitionProgress + (IF camera THEN deltaTime ELSE 0)
          s1 == [s EXCEPT !.doorOpeningProgress = doorP,
                          !.doorOpening = doorO,
                          !.doorRotationY = IF s.doorOpening
                                            THEN doorRotationValue(doorP)
                                            ELSE s.doorRotationY,
                          !.transitionProgress = tp]
      IN IF tp >= TRANSITION_DURATION
         THEN [s1 EXCEPT !.transitionProgress = TRANSITION_DURATION,
                         !.isTransitioning = FALSE,
                         !.currentScene = s.nextScene,
                         !.nextScene = "none"]
         ELSE s1

\* mutant: completion leaves the scene as it was
updateSceneTransitionNoFlip(s, deltaTime) ==
    IF ~s.isTransitioning
    THEN s
    ELSE
      LET door1 == s.doorOpeningProgress + deltaTime
          doorDone == door1 >= doorAnimationDuration
          doorP == IF s.doorOpening
                   THEN (IF doorDone THEN doorAnimationDuration ELSE door1)
                   ELSE s.doorOpeningProgress
          doorO == s.doorOpening /\ ~doorDone
          camera == IF s.doorOpening THEN 2 * doorP > doorAnimationDuration ELSE TRUE
          tp == s.transitionProgress + (IF camera THEN deltaTime ELSE 0)
          s1 == [s EXCEPT !.doorOpeningProgress = doorP,
                          !.doorOpening = doorO,
                          !.doorRotationY = IF s.doorOpening
                                            THEN doorRotationValue(doorP)
                                            ELSE s.doorRotationY,
                          !.transitionProgress = tp]
      IN IF tp >= TRANSITION_DURATION
         THEN [s1 EXCEPT !.transitionProgress = TRANSITION_DURATION,
                         !.isTransitioning = FALSE,
                         !.nextScene = "none"]
         ELSE s1

updateSceneTransition(s, deltaTime) ==
    IF ~s.isTransitioning
    THEN s
    ELSE
      LET door1 == s.doorOpeningProgress + deltaTime
          doorDone == door1 >= doorAnimationDuration
          doorP == IF s.doorOpening
                   THEN (IF doorDone THEN doorAnimationDuration ELSE door1)
                   ELSE s.doorOpeningProgress
          doorO == s.doorOpening /\ ~doorDone
          camera == IF s.doorOpening THEN 2 * doorP > doorAnimationDuration ELSE TRUE
          tp == s.transitionProgress + (IF camera THEN deltaTime ELSE 0)
          s1 == [s EXCEPT !.doorOpeningProgress = doorP,
                          !.doorOpening = doorO,
                          !.doorRotationY = IF s.doorOpening
                                            THEN doorRotationValue(doorP)
                                            ELSE s.doorRotationY,
                          !.transitionProgress = tp]
      IN IF tp >= TRANSITION_DURATION
         THEN [s1 EXCEPT !.transitionProgress = TRANSITION_DURATION,
                         !.isTransitioning = FALSE,
                         !.currentScene = s.nextScene,
                         !.nextScene = "none"]
         ELSE s1

(***************************************************************************)
(* audio.js: lyrics                                                        *)
(***************************************************************************)
\* mutant: the stanza loop does not break, so the last due stanza wins
DueStanzaLast(currentPlaybackTime, stanzaIndex) ==
    LET due == { i \in 0..(Len(lyrics) - 1) :
                   currentPlaybackTime >= lyrics[i + 1][1] /\ i > stanzaIndex }
    IN IF due = {} THEN Null ELSE CHOOSE i \in due : \A j \in due : i >= j

\* mutant: the stanza loop does not compare with currentStanzaIndex
DueStanzaAgain(currentPlaybackTime, stanzaIndex) ==
    LET due == { i \in 0..(Len(lyrics) - 1) : currentPlaybackTime >= lyrics[i + 1][1] }
    IN IF due = {} THEN Null ELSE CHOOSE i \in due : \A j \in due : i <= j

\* the first stanza i (0-based) whose first line is due and that is beyond
\* currentStanzaIndex; Null when the loop finds none
DueStanza(currentPlaybackTime, stanzaIndex) ==
    LET due == { i \in 0..(Len(lyrics) - 1) :
                   currentPlaybackTime >= lyrics[i + 1][1] /\ i > stanzaIndex }
    IN IF due = {} THEN Null ELSE CHOOSE i \in due : \A j \in due : i <= j

\* mutant: the line loop does not break, so the last due line wins
DueLineLast(currentPlaybackTime, stanzaIndex, lineIndex) ==
    LET currentStanza == lyrics[stanzaIndex + 1]
        due == { i \in 0..(Len(currentStanza) - 1) :
                   currentPlaybackTime >= currentStanza[i + 1] /\ i > lineIndex }
    IN IF due = {} THEN Null ELSE CHOOSE i \in due : \A j \in due : i >= j

\* the first line i of the stanza whose time has passed and that is beyond
\* currentLineIndex; Null when the loop finds none
DueLine(currentPlaybackTime, stanzaIndex, lineIndex) ==
    LET currentStanza == lyrics[stanzaIndex + 1]
        due == { i \in 0..(Len(currentStanza) - 1) :
                   currentPlaybackTime >= currentStanza[i + 1] /\ i > lineIndex }
    IN IF due = {} THEN Null ELSE CHOOSE i \in due : \A j \in due : i <= j

\* createNewStanza(i) called at wall-clock time: the pending fade timer is
\* cleared, a displayed group gets an 800 ms removal timer, and the variable
\* is pointed at a new group appended to the lyrics container
createNewStanza(L, stanzaIndex, time) ==
    [L EXCEPT !.stanzaFadeTimeout = Null,
              !.oldStanzaTimeouts =
                  IF L.stanzaContainer # Null /\ L.stanzaInDom
                  THEN L.oldStanzaTimeouts \cup {time + 800}
                  ELSE L.oldStanzaTimeouts,
              !.currentStanzaIndex = stanzaIndex,
              !.currentLineIndex = -1,
              !.stanzaContainer = stanzaIndex,
              !.stanzaInDom = TRUE,
              !.leftInDom = IF L.stanzaContainer # Null /\ L.stanzaInDom
                            THEN L.leftInDom \cup {L.stanzaContainer}
                            ELSE L.leftInDom,
              !.log = Append(L.log, << "stanza", stanzaIndex >>)]

showNextLine(L, lineIndex) ==
    [L EXCEPT !.currentLineIndex = lineIndex,
              !.log = Append(L.log, << "line", L.currentStanzaIndex, lineIndex >>)]

\* updateLyrics past its guard; L holds the lyric variables and the events
\* of this call.  Revealing the last line of a stanza replaces the fade timer
updateLyrics(L, currentPlaybackTime, time) ==
    LET i == DueStanza(currentPlaybackTime, L.currentStanzaIndex)
        L1 == IF i # Null THEN createNewStanza(L, i, time) ELSE L
        j == IF L1.currentStanzaIndex >= 0 /\ L1.stanzaContainer # Null
             THEN DueLine(currentPlaybackTime, L1.currentStanzaIndex, L1.currentLineIndex)
             ELSE Null
        L2 == IF j # Null THEN showNextLine(L1, j) ELSE L1
    IN IF j # Null /\ j = Len(lyrics[L1.currentStanzaIndex + 1]) - 1
       THEN [L2 EXCEPT !.stanzaFadeTimeout = time + 6000]
       ELSE L2

(***************************************************************************)
(* audio.js: explosion and return                                          *)
(***************************************************************************)
\* direction.subVectors(object.position, explosionCenter).normalize(), on
\* the radial axis the model keeps
Direction(position) == Sign(position)

\* Math.max(0.3, 5 / (distance + 0.1)), in 1/1000
Force(position) == Max(300, 5000000 \div (Abs(position) + 100))

\* one pass of animateBlowApart over blownApartObjects: the objects after
\* it and whether any is still moving
BlowApartObject(ob, data, sign) ==
    LET fresh == ob.blowApartDistance = Null \/ ob.blowApartDistance = 0
        d0 == IF fresh THEN 0 ELSE ob.blowApartDistance
        rd == IF fresh THEN sign ELSE ob.rotationDirection
        speed == (3 * data.force * (data.maxDistance - d0)) \div (100 * data.maxDistance)
        d1 == d0 + speed
        rotationFactor == (data.force * (data.maxDistance - d1)) \div data.maxDistance
    IN IF d0 < data.maxDistance
       THEN [ob EXCEPT !.blowApartDistance = d1,
                       !.rotationDirection = rd,
                       !.position = ob.position + data.direction * ((3 * speed) \div 10),
                       !.rotation = ob.rotation + rd * (rotationFactor \div 2)]
       ELSE [ob EXCEPT !.blowApartDistance = d0, !.rotationDirection = rd]

StillMoving(objs, blown) ==
    \E o \in DOMAIN blown :
        LET d == objs[o].blowApartDistance
        IN (IF d = Null THEN 0 ELSE d) < blown[o].maxDistance

animateBlowApart(W, rnd) ==
    [W EXCEPT !.objects = [o \in Objects |->
                             IF o \in DOMAIN W.blownApartObjects
                             THEN BlowApartObject(W.objects[o], W.blownApartObjects[o],
                                                  rnd.sign[o])
                             ELSE W.objects[o]],
              !.stillMoving = StillMoving(W.objects, W.blownApartObjects)]

\* the objects scene.traverse visits and the exclusion list lets through
Eligible(objs) == { o \in Objects : objs[o].parent }

\* mutant: every explosion captures again
CaptureOriginalAlways(W) ==
    [o \in Eligible(W.objects) |->
       [position |-> W.objects[o].position, rotation |-> W.objects[o].rotation]]

CaptureOriginal(W) ==
    IF DOMAIN W.originalObjectStates = {}
    THEN [o \in Eligible(W.objects) |->
            [position |-> W.objects[o].position, rotation |-> W.objects[o].rotation]]
    ELSE W.originalObjectStates

prepareBlowApart(W, rnd) ==
    [o \in Eligible(W.objects) |->
       [direction |-> Direction(W.objects[o].position),
        force |-> Force(W.objects[o].position),
        maxDistance |-> rnd.maxDistance[o]]]

createExplosionEffect(W, rnd) ==
    LET W1 == [W EXCEPT !.originalObjectStates = CaptureOriginal(W)]
        W2 == [W1 EXCEPT !.blownApartObjects = prepareBlowApart(W1, rnd)]
        W3 == animateBlowApart(W2, rnd)
    IN [W3 EXCEPT !.scatterChains = W3.scatterChains + (IF W3.stillMoving THEN 1 ELSE 0)]

\* easeOutQuint(progress) in 1/1000
easeOutQuint(elapsed) ==
    LET t == Min(1000, (elapsed * 1000) \div returnAnimationDuration)
        u == 1000 - t
        u2 == (u * u) \div 1000
        u4 == (u2 * u2) \div 1000
        u5 == (u4 * u) \div 1000
    IN 1000 - u5

\* the normalize helper of lerpAngle: into [-PI, PI]
normalize(angle) ==
    LET turns == IF angle > PI THEN (angle - PI + 2 * PI - 1) \div (2 * PI)
                 ELSE IF angle < -PI THEN -((-PI - angle + 2 * PI - 1) \div (2 * PI))
                 ELSE 0
    IN angle - turns * 2 * PI

lerpAngle(start, end, t) ==
    LET startAngle == normalize(start)
        endAngle == normalize(end)
        diff0 == endAngle - startAngle
        diff == IF Abs(diff0) > PI
                THEN (IF diff0 > 0 THEN diff0 - 2 * PI ELSE diff0 + 2 * PI)
                ELSE diff0
    IN startAngle + (diff * t) \div 1000

\* mutant: the return tick does not skip an object without parent
ReturningDetached(W, o) ==
    o \in DOMAIN W.blownApartObjects /\ o \in DOMAIN W.originalObjectStates

Returning(W, o) ==
    o \in DOMAIN W.blownApartObjects /\ W.objects[o].parent
        /\ o \in DOMAIN W.originalObjectStates

\* updateReturnAnimation past its guard
updateReturnAnimation(W, elapsed) ==
    LET eased == easeOutQuint(elapsed)
        moved == [o \in Objects |->
                    IF Returning(W, o)
                    THEN LET ob == W.objects[o]
                             target == W.originalObjectStates[o]
                         IN [ob EXCEPT
                               !.position = ob.position
                                    + ((target.position - ob.position) * eased) \div 1000,
                               !.rotation = lerpAngle(ob.rotation, target.rotation, eased)]
                    ELSE W.objects[o]]
        snapped == [o \in Objects |->
                      IF Returning(W, o)
                      THEN [moved[o] EXCEPT
                              !.position = W.originalObjectStates[o].position,
                              !.rotation = W.originalObjectStates[o].rotation,
                              !.blowApartDistance = Null,
                              !.rotationDirection = 0]
                      ELSE moved[o]]
    IN IF elapsed >= returnAnimationDuration
       THEN [W EXCEPT !.objects = snapped,
                      !.isReturnAnimationActive = FALSE,
                      !.preventSecondExplosion = TRUE]
       ELSE [W EXCEPT !.objects = moved]

(***************************************************************************)
(* getAverageFrequency                                                     *)
(***************************************************************************)
\* a JavaScript number that is a quotient sum / length / 255, or NaN
Number(sum, length) == [nan |-> FALSE, sum |-> sum, length |-> length]
NaN == [nan |-> TRUE, sum |-> 0, length |-> 1]
Zero == Number(0, 1)

\* audioData[i]: undefined outside the buffer
Defined(data, i) == 0 <= i /\ i < Len(data)

\* the for loop: sum += audioData[i] for i in start..(upper - 1);
\* adding undefined makes the sum NaN
RECURSIVE SumBins(_, _, _)
SumBins(data, i, upper) ==
    IF i >= upper
    THEN Number(0, 1)
    ELSE LET rest == SumBins(data, i + 1, upper)
         IN IF ~Defined(data, i) \/ rest.nan
            THEN NaN
            ELSE Number(data[i + 1] + rest.sum, 1)

\* mutant: the divisor is not clamped to the buffer
getAverageFrequencyUnclamped(data, start, end) ==
    LET upper == Min(end, Len(data))
        length == upper - start
    IN IF length <= 0
       THEN Zero
       ELSE LET total == SumBins(data, start, upper)
            IN IF total.nan THEN NaN ELSE Number(total.sum, end - start)

\* audio.js getAverageFrequency
getAverageFrequency(data, start, end) ==
    LET upper == Min(end, Len(data))
        length == upper - start
    IN IF length <= 0
       THEN Zero
       ELSE LET total == SumBins(data, start, upper)
            IN IF total.nan THEN NaN ELSE Number(total.sum, length)

\* main.js getAverageFrequency: audioAnalyser is undefined until the load
\* callback has run
mainGetAverageFrequency(loaded, data, start, end) ==
    IF ~loaded THEN Zero ELSE getAverageFrequency(data, start, end)

NoCall == [called |-> FALSE, start |-> 0, end |-> 0, audio |-> Zero, main |-> Zero]

(***************************************************************************)
(* audio.js: global colour modulation.  Channels, lightness, saturation,   *)
(* opacity and band levels are in 1/1000; hue is in 1/1000 of a sextant    *)
(* (0..6000 for a full turn), so that 1/6, 1/3, 1/2 and 2/3 of a turn are  *)
(* whole numbers.  Every product is rounded down to that resolution.       *)
(***************************************************************************)
\* userData.initialColor of a mesh that has none
NoColor == << >>

Max3(c) == Max(c[1], Max(c[2], c[3]))
Min3(c) == Min(c[1], Min(c[2], c[3]))
Clamp01(x) == Min(Max(x, 0), 1000)

\* THREE.Color.getHSL
getHSL(c) ==
    LET max == Max3(c)
        min == Min3(c)
        lightness == (min + max) \div 2
        delta == max - min
        denominator == IF lightness <= 500 THEN max + min ELSE 2000 - max - min
        \* a quotient by zero is Infinity, which setHSL clamps to 1
        saturation == IF denominator = 0 THEN 1000
                      ELSE (delta * 1000) \div denominator
        hue == IF max = c[1]
               THEN ((c[2] - c[3]) * 1000) \div delta + (IF c[2] < c[3] THEN 6000 ELSE 0)
               ELSE IF max = c[2]
               THEN ((c[3] - c[1]) * 1000) \div delta + 2000
               ELSE ((c[1] - c[2]) * 1000) \div delta + 4000
    IN IF min = max
       THEN [h |-> 0, s |-> 0, l |-> lightness]
       ELSE [h |-> hue, s |-> saturation, l |-> lightness]

\* the hue2rgb helper of THREE.Color.setHSL
hue2rgb(p, q, t0) ==
    LET t1 == IF t0 < 0 THEN t0 + 6000 ELSE t0
        t == IF t1 > 6000 THEN t1 - 6000 ELSE t1
    IN IF t < 1000 THEN p + ((q - p) * t) \div 1000
       ELSE IF t < 3000 THEN q
       ELSE IF t < 4000 THEN p + ((q - p) * (4000 - t)) \div 1000
       ELSE p

\* THREE.Color.setHSL
setHSL(hsl) ==
    LET h == hsl.h % 6000
        s == Clamp01(hsl.s)
        l == Clamp01(hsl.l)
        p == IF l <= 500 THEN (l * (1000 + s)) \div 1000 ELSE l + s - (l * s) \div 1000
        q == 2 * l - p
    IN IF s = 0
       THEN << l, l, l >>
       ELSE << hue2rgb(q, p, h + 2000), hue2rgb(q, p, h), hue2rgb(q, p, h - 2000) >>

\* applyColorModulation past its initialColor guard
applyColorModulation(initialColor, bassModulation, midModulation, highModulation, pulse) ==
    LET scaled == << (initialColor[1] * bassModulation) \div 1000,
                     (initialColor[2] * midModulation) \div 1000,
                     (initialColor[3] * highModulation) \div 1000 >>
        hsl == getHSL(scaled)
    IN setHSL([hsl EXCEPT !.l = Min(1000, (hsl.l * pulse) \div 1000)])

\* storeInitialColors: the baselines of the meshes in the scene that have
\* none yet (the opacity baseline is written again whenever it runs)
storeInitialColors(G, objs) ==
    [G EXCEPT !.userData =
        [o \in Objects |->
           IF ~objs[o].parent THEN G.userData[o]
           ELSE LET m == G.materials[o]
                    u == G.userData[o]
                IN [initialColor |-> IF u.initialColor = NoColor THEN m.color
                                     ELSE u.initialColor,
                    initialEmissive |-> IF u.initialEmissive = NoColor THEN m.emissive
                                        ELSE u.initialEmissive,
                    initialOpacity |-> IF m.transparent THEN m.opacity
                                       ELSE u.initialOpacity]]]

\* mutant: the opacity factor is 1 at silence
OpacityFactorUnit(avgIntensity) == 1000 + (avgIntensity * 200) \div 1000

\* the opacity factor 0.9 + avgIntensity * 0.2
OpacityFactor(avgIntensity) == 900 + (avgIntensity * 200) \div 1000

\* the material of one mesh after the traversal callback of
\* applyGlobalAudioEffect
ModulatedMaterial(m, u, bass, mid, high) ==
    LET bassModulation == 1000 + (bass * 300) \div 1000
        midModulation == 1000 + (mid * 300) \div 1000
        highModulation == 1000 + (high * 300) \div 1000
        avgIntensity == (bass + mid + high) \div 3
        pulse == 1000 + (avgIntensity * 200) \div 1000
    IN [m EXCEPT
          !.color = IF u.initialColor # NoColor
                    THEN applyColorModulation(u.initialColor, bassModulation,
                                              midModulation, highModulation, pulse)
                    ELSE m.color,
          !.emissive = IF u.initialEmissive # NoColor
                       THEN << (u.initialEmissive[1] * bassModulation * pulse) \div 1000000,
                               (u.initialEmissive[2] * midModulation * pulse) \div 1000000,
                               (u.initialEmissive[3] * highModulation * pulse) \div 1000000 >>
                       ELSE m.emissive,
          !.opacity = IF m.transparent /\ u.initialOpacity # Null /\ u.initialOpacity # 0
                      THEN (u.initialOpacity * OpacityFactor(avgIntensity)) \div 1000
                      ELSE m.opacity]

\* applyGlobalAudioEffect; G holds materials, userData and
\* scene.userData.initialColorsStored
applyGlobalAudioEffect(G, objs, bass, mid, high) ==
    LET G1 == IF G.initialColorsStored THEN G
              ELSE [storeInitialColors(G, objs) EXCEPT !.initialColorsStored = TRUE]
    IN [G1 EXCEPT !.materials =
          [o \in Objects |->
             IF objs[o].parent
             THEN ModulatedMaterial(G1.materials[o], G1.userData[o], bass, mid, high)
             ELSE G1.materials[o]]]

\* the record of a call of applyGlobalAudioEffect with these levels
EffectCalled(call, bass, mid, high) ==
    [called |-> TRUE, bass |-> bass, mid |-> mid, high |-> high,
     loudBefore |-> call.loudBefore]

\* the next frame interval begins: no call yet, and whether a call so far
\* had a level above 0
EffectForgotten(call) ==
    [called |-> FALSE, bass |-> 0, mid |-> 0, high |-> 0,
     loudBefore |-> call.loudBefore \/ call.bass + call.mid + call.high > 0]

\* a result of getAverageFrequency as a level in 1/1000
Level(number) == IF number.nan THEN 0 ELSE (number.sum * 1000) \div (number.length * 255)

\* the material a mesh is built with, and the userData of a new mesh
InitMaterial(o) ==
    IF o = 1
    THEN [color |-> << 200, 500, 700 >>, emissive |-> << 100, 0, 300 >>,
          opacity |-> 1000, transparent |-> FALSE]
    ELSE [color |-> << 1000, 500, 0 >>, emissive |-> << 0, 0, 0 >>,
          opacity |-> 800, transparent |-> TRUE]
NoBaseline == [initialColor |-> NoColor, initialEmissive |-> NoColor, initialOpacity |-> Null]

(***************************************************************************)
(* State after construction                                                *)
(***************************************************************************)
EmptyMap == [o \in {} |-> 0]

\* the one-shot cues whose latch is set
FiredCues ==
    (IF sceneTransitionTriggered THEN {"sceneTransition"} ELSE {})
        \cup (IF explosionTriggered THEN {"explosion"} ELSE {})
        \cup (IF returnTriggered THEN {"return"} ELSE {})

\* no pause in the middle of a stanza since the track last started from its
\* beginning
NoPause == [paused |-> FALSE, stanza |-> -1, line |-> -1, cues |-> {}]

Init ==
    /\ now = 0
    /\ pc = "frame"
    /\ audioLoaded = FALSE
    /\ audioData = << >>
    /\ averageCall = NoCall
    /\ ctxSuspended \in BOOLEAN
    /\ pendingResume = 0
    /\ isAudioPlaying = FALSE
    /\ audioStartTime = 0
    /\ sceneTransitionTriggered = FALSE
    /\ explosionTriggered = FALSE
    /\ returnTriggered = FALSE
    /\ preventSecondExplosion = FALSE
    /\ pauseRecord = NoPause
    /\ currentStanzaIndex = -1
    /\ currentLineIndex = -1
    /\ stanzaContainer = Null
    /\ stanzaInDom = FALSE
    /\ leftInDom = {}
    /\ stanzaFadeTimeout = Null
    /\ removeTimeouts = {}
    /\ oldStanzaTimeouts = {}
    /\ transitionRequest = NoRequest
    /\ sceneState = [currentScene |-> "exterior", nextScene |-> "none",
                     transitionProgress |-> 0, isTransitioning |-> FALSE,
                     doorOpening |-> FALSE, doorOpeningProgress |-> 0,
                     doorRotationY |-> 0]
    /\ lastTime = 0
    /\ objects = [o \in Objects |->
                    [position |-> InitPosition(o), rotation |-> InitRotation(o),
                     parent |-> TRUE, blowApartDistance |-> Null,
                     rotationDirection |-> 0]]
    /\ blownApartObjects = EmptyMap
    /\ originalObjectStates = EmptyMap
    /\ returnAnimationStartTime = 0
    /\ returnElapsed = Null
    /\ isReturnAnimationActive = FALSE
    /\ scatterChains = 0
    /\ scatterPending = 0
    /\ materials = [o \in Objects |-> InitMaterial(o)]
    /\ userData = [o \in Objects |-> NoBaseline]
    /\ initialColorsStored = FALSE
    /\ effectCall = [called |-> FALSE, bass |-> 0, mid |-> 0, high |-> 0,
                     loudBefore |-> FALSE]
    /\ session = 0
    /\ cueLog = << >>
    /\ tickLog = << >>

(***************************************************************************)
(* Operations                                                              *)
(***************************************************************************)
audioVars == << audioLoaded, audioData, averageCall, ctxSuspended, pendingResume, isAudioPlaying,
                audioStartTime, session >>
flagVars == << sceneTransitionTriggered, explosionTriggered, returnTriggered,
               preventSecondExplosion, pauseRecord, cueLog >>
lyricVars == << currentStanzaIndex, currentLineIndex, stanzaContainer, stanzaInDom,
                leftInDom,
                stanzaFadeTimeout, removeTimeouts, oldStanzaTimeouts, tickLog >>
sceneVars == << sceneState, transitionRequest >>
materialVars == << materials, userData, initialColorsStored, effectCall >>
worldVars == << objects, blownApartObjects, originalObjectStates,
                returnAnimationStartTime, returnElapsed, isReturnAnimationActive,
                scatterChains, scatterPending >>

Logged(log, fired, name) ==
    IF fired /\ Len(log) < MaxLog THEN Append(log, name) ELSE log

\* the timers whose callbacks have not run
PendingTimeouts ==
    removeTimeouts \cup oldStanzaTimeouts
        \cup (IF stanzaFadeTimeout # Null THEN {stanzaFadeTimeout} ELSE {})

\* the clock moves to the instant t of the next frame; a timer is late by
\* one frame at most
AdvanceTime(t) ==
    /\ pc = "idle"
    /\ t > now
    /\ \A due \in PendingTimeouts : due >= now
    /\ now' = t
    /\ pc' = "frame"
    /\ transitionRequest' = NoRequest
    /\ effectCall' = EffectForgotten(effectCall)
    /\ UNCHANGED << materials, userData, initialColorsStored, audioVars, flagVars, lyricVars, worldVars, sceneState,
                    lastTime >>

\* mutant: the per-frame copy of currentScene is not consulted
SceneCueAnyScene(currentPlaybackTime, userDataCurrentScene) ==
    /\ ~sceneTransitionTriggered /\ isAudioPlaying
    /\ currentPlaybackTime >= sceneTransitionTime

\* mutant: the scene-transition latch is not consulted
SceneCueNoLatch(currentPlaybackTime, userDataCurrentScene) ==
    /\ isAudioPlaying
    /\ currentPlaybackTime >= sceneTransitionTime
    /\ userDataCurrentScene = "exterior"

\* the three one-shot cue conditions of updateAudioReactiveElements
SceneCue(currentPlaybackTime, userDataCurrentScene) ==
    /\ ~sceneTransitionTriggered /\ isAudioPlaying
    /\ currentPlaybackTime >= sceneTransitionTime
    /\ userDataCurrentScene = "exterior"

\* mutant: the explosion latch is not consulted
ExplosionCueNoLatch(currentPlaybackTime) ==
    /\ ~preventSecondExplosion /\ isAudioPlaying
    /\ currentPlaybackTime >= explosionTime

\* mutant: the suppression flag is not consulted
ExplosionCueNoSuppression(currentPlaybackTime) ==
    /\ ~explosionTriggered /\ isAudioPlaying
    /\ currentPlaybackTime >= explosionTime

ExplosionCue(currentPlaybackTime) ==
    /\ ~explosionTriggered /\ ~preventSecondExplosion /\ isAudioPlaying
    /\ currentPlaybackTime >= explosionTime

\* mutant: the return cue does not require the explosion to have fired
ReturnCueWithoutExplosion(currentPlaybackTime, explosionTriggeredNow) ==
    /\ ~returnTriggered /\ isAudioPlaying
    /\ currentPlaybackTime >= returnToPositionTime

ReturnCue(currentPlaybackTime, explosionTriggeredNow) ==
    /\ explosionTriggeredNow /\ ~returnTriggered /\ isAudioPlaying
    /\ currentPlaybackTime >= returnToPositionTime

\* the explosion cue is about to fire in the next animate call
ExplosionDue == audioLoaded /\ ExplosionCue(now - audioStartTime)

\* the values Math.random() yields in one pass, per object; NoRandom where
\* the pass draws none
NoRandom == [maxDistance |-> [o \in Objects |-> 3000], sign |-> [o \in Objects |-> 1]]
RandomChoices(R) ==
    [maxDistance : [Objects -> R.maxDistance], sign : [Objects -> R.sign]]
SignOnlyChoices(R) ==
    [maxDistance : {NoRandom.maxDistance}, sign : [Objects -> R.sign]]

\* what one animate call draws from its environment: Math.random() where
\* the explosion fires, the spectrum where the analyser is read
FrameInputs(R) ==
    { [maxDistance |-> r.maxDistance, sign |-> r.sign, bins |-> b] :
        r \in (IF ExplosionDue THEN RandomChoices(R) ELSE {NoRandom}),
        b \in (IF audioLoaded /\ isAudioPlaying
                THEN [1..NumBins -> R.bins] ELSE {audioData}) }

\* one call of main.js animate, updateAudioReactiveElements included
\* mutant: the guard of updateAudioReactiveElements tests the analyser only
PastGuardAnalyserOnly == audioLoaded

\* the guard of updateAudioReactiveElements lets the call through
PastGuard == audioLoaded /\ isAudioPlaying

AnimateWith(rnd) ==
    LET deltaTime == now - lastTime
        userDataCurrentScene == sceneState.currentScene
        s1 == updateSceneTransition(sceneState, deltaTime)
        active == PastGuard
        currentPlaybackTime == now - audioStartTime
        fireScene == active /\ SceneCue(currentPlaybackTime, userDataCurrentScene)
        s2 == IF fireScene THEN transitionToScene(s1, "interior") ELSE s1
        fireExplosion == active /\ ExplosionCue(currentPlaybackTime)
        W0 == [objects |-> objects, blownApartObjects |-> blownApartObjects,
               originalObjectStates |-> originalObjectStates,
               scatterChains |-> scatterChains, stillMoving |-> FALSE,
               isReturnAnimationActive |-> isReturnAnimationActive,
               preventSecondExplosion |-> preventSecondExplosion]
        W1 == IF fireExplosion THEN createExplosionEffect(W0, rnd) ELSE W0
        explosionTriggered1 == explosionTriggered \/ fireExplosion
        fireReturn == active /\ ReturnCue(currentPlaybackTime, explosionTriggered1)
        \* triggerReturnAnimation
        startTime == IF fireReturn THEN now ELSE returnAnimationStartTime
        W2 == IF fireReturn THEN [W1 EXCEPT !.isReturnAnimationActive = TRUE] ELSE W1
        W3 == IF active /\ W2.isReturnAnimationActive
              THEN updateReturnAnimation(W2, now - startTime)
              ELSE W2
        L0 == [currentStanzaIndex |-> currentStanzaIndex,
               currentLineIndex |-> currentLineIndex,
               stanzaContainer |-> stanzaContainer, stanzaInDom |-> stanzaInDom,
               leftInDom |-> leftInDom,
               stanzaFadeTimeout |-> stanzaFadeTimeout,
               oldStanzaTimeouts |-> oldStanzaTimeouts, log |-> << >>]
        L1 == IF active THEN updateLyrics(L0, currentPlaybackTime, now) ELSE L0
        \* the band averages are read from the buffer filled in this call
        bassAvg == Level(getAverageFrequency(rnd.bins, 1, 4))
        midAvg == Level(getAverageFrequency(rnd.bins, 5, 20))
        highAvg == Level(getAverageFrequency(rnd.bins, 50, 100))
        G0 == [materials |-> materials, userData |-> userData,
               initialColorsStored |-> initialColorsStored]
        G1 == IF active
              THEN applyGlobalAudioEffect(G0, W3.objects, bassAvg, midAvg, highAvg)
              ELSE G0
    IN /\ lastTime' = now
       /\ materials' = G1.materials
       /\ userData' = G1.userData
       /\ initialColorsStored' = G1.initialColorsStored
       /\ effectCall' = IF active THEN EffectCalled(effectCall, bassAvg, midAvg, highAvg)
                        ELSE effectCall
       /\ sceneState' = s2
       /\ transitionRequest' = IF fireScene THEN Request("cue", s1.isTransitioning)
                               ELSE transitionRequest
       /\ sceneTransitionTriggered' = (sceneTransitionTriggered \/ fireScene)
       /\ explosionTriggered' = explosionTriggered1
       /\ returnTriggered' = (returnTriggered \/ fireReturn)
       /\ preventSecondExplosion' = W3.preventSecondExplosion
       /\ cueLog' = Logged(Logged(Logged(cueLog, fireScene, "sceneTransition"),
                                  fireExplosion, "explosion"),
                           fireReturn, "return")
       /\ objects' = W3.objects
       /\ blownApartObjects' = W3.blownApartObjects
       /\ originalObjectStates' = W3.originalObjectStates
       /\ returnAnimationStartTime' = startTime
       /\ returnElapsed' = IF active /\ W2.isReturnAnimationActive
                           THEN now - startTime
                           ELSE returnElapsed
       /\ isReturnAnimationActive' = W3.isReturnAnimationActive
       /\ scatterChains' = W3.scatterChains
       \* the callbacks registered before this frame run after animate
       /\ scatterPending' = scatterChains
       /\ pc' = IF scatterChains > 0 THEN "raf" ELSE "idle"
       /\ currentStanzaIndex' = L1.currentStanzaIndex
       /\ currentLineIndex' = L1.currentLineIndex
       /\ stanzaContainer' = L1.stanzaContainer
       /\ stanzaInDom' = L1.stanzaInDom
       /\ leftInDom' = L1.leftInDom
       /\ stanzaFadeTimeout' = L1.stanzaFadeTimeout
       /\ oldStanzaTimeouts' = L1.oldStanzaTimeouts
       /\ tickLog' = L1.log
       \* audioAnalyser.getFrequencyData()
       /\ audioData' = IF active THEN rnd.bins ELSE audioData
       /\ UNCHANGED << now, audioLoaded, averageCall, ctxSuspended, pendingResume,
                       isAudioPlaying, audioStartTime, session, removeTimeouts,
                       pauseRecord >>

Animate(R) ==
    /\ pc = "frame"
    /\ \E rnd \in FrameInputs(R) : AnimateWith(rnd)

SomeFresh ==
    \E o \in DOMAIN blownApartObjects :
        objects[o].blowApartDistance = Null \/ objects[o].blowApartDistance = 0

\* one requestAnimationFrame callback of an animateBlowApart chain
ScatterCallback(R) ==
    /\ pc = "raf"
    /\ scatterPending > 0
    /\ \E rnd \in (IF SomeFresh THEN SignOnlyChoices(R) ELSE {NoRandom}) :
         LET W0 == [objects |-> objects, blownApartObjects |-> blownApartObjects,
                    stillMoving |-> FALSE]
             W1 == animateBlowApart(W0, rnd)
         IN /\ objects' = W1.objects
            /\ scatterChains' = IF W1.stillMoving THEN scatterChains ELSE scatterChains - 1
    /\ scatterPending' = scatterPending - 1
    /\ pc' = IF scatterPending = 1 THEN "idle" ELSE "raf"
    /\ UNCHANGED << materialVars, now, audioVars, flagVars, lyricVars, sceneVars, lastTime,
                    blownApartObjects, originalObjectStates,
                    returnAnimationStartTime, returnElapsed, isReturnAnimationActive >>

\* the load callback of setupAudio
LoadAudio ==
    /\ pc = "idle"
    /\ ~audioLoaded
    /\ audioLoaded' = TRUE
    \* audioData = audioAnalyser.data, a zeroed Uint8Array
    /\ audioData' = [i \in 1..NumBins |-> 0]
    /\ UNCHANGED << materialVars, now, pc, averageCall, ctxSuspended, pendingResume, isAudioPlaying,
                    audioStartTime, session, flagVars, lyricVars, worldVars,
                    sceneVars, lastTime >>

\* mutant: the start block forgets to reset preventSecondExplosion
StartPlaybackKeepsSuppression ==
    /\ isAudioPlaying' = TRUE
    /\ audioStartTime' = now
    /\ sceneTransitionTriggered' = FALSE
    /\ explosionTriggered' = FALSE
    /\ returnTriggered' = FALSE
    /\ preventSecondExplosion' = preventSecondExplosion
    /\ pauseRecord' = [pauseRecord EXCEPT !.paused = FALSE]
    /\ currentStanzaIndex' = -1
    /\ currentLineIndex' = -1
    /\ stanzaContainer' = Null
    /\ stanzaInDom' = FALSE
    /\ leftInDom' = IF stanzaContainer # Null /\ stanzaInDom
                    THEN leftInDom \cup {stanzaContainer}
                    ELSE leftInDom
    \* clearTimeout(stanzaFadeTimeout)
    /\ stanzaFadeTimeout' = Null
    /\ session' = session + 1
    /\ cueLog' = << >>
    /\ UNCHANGED << materialVars, now, pc, audioLoaded, audioData, averageCall, tickLog, worldVars,
                    sceneVars, lastTime, removeTimeouts, oldStanzaTimeouts >>

\* the block both branches of the click handler run to start playback
StartPlayback ==
    /\ isAudioPlaying' = TRUE
    /\ audioStartTime' = now
    /\ sceneTransitionTriggered' = FALSE
    /\ explosionTriggered' = FALSE
    /\ returnTriggered' = FALSE
    /\ preventSecondExplosion' = FALSE
    /\ pauseRecord' = [pauseRecord EXCEPT !.paused = FALSE]
    /\ currentStanzaIndex' = -1
    /\ currentLineIndex' = -1
    /\ stanzaContainer' = Null
    /\ stanzaInDom' = FALSE
    /\ leftInDom' = IF stanzaContainer # Null /\ stanzaInDom
                    THEN leftInDom \cup {stanzaContainer}
                    ELSE leftInDom
    \* clearTimeout(stanzaFadeTimeout)
    /\ stanzaFadeTimeout' = Null
    /\ session' = session + 1
    /\ cueLog' = << >>
    /\ UNCHANGED << materialVars, now, pc, audioLoaded, audioData, averageCall, tickLog, worldVars,
                    sceneVars, lastTime, removeTimeouts, oldStanzaTimeouts >>

\* click on the play button while not playing
PlayClick ==
    /\ pc = "idle"
    /\ audioLoaded
    /\ ~isAudioPlaying
    /\ IF ctxSuspended
       THEN /\ pendingResume < MaxPending
            /\ pendingResume' = pendingResume + 1
            /\ UNCHANGED << materialVars, now, pc, audioLoaded, audioData, averageCall, ctxSuspended, isAudioPlaying,
                            audioStartTime, session, flagVars, lyricVars,
                            worldVars, sceneVars, lastTime >>
       ELSE /\ session < MaxSessions
            /\ StartPlayback
            /\ UNCHANGED << materialVars, ctxSuspended, pendingResume >>

\* audioListener.context.resume() resolves: the .then callback runs
ResumeResolved ==
    /\ pc = "idle"
    /\ pendingResume > 0
    /\ session < MaxSessions
    /\ pendingResume' = pendingResume - 1
    /\ ctxSuspended' = FALSE
    /\ StartPlayback

\* audioListener.context.resume() rejects: the .catch callback runs
ResumeRejected ==
    /\ pc = "idle"
    /\ pendingResume > 0
    /\ pendingResume' = pendingResume - 1
    /\ UNCHANGED << materialVars, now, pc, audioLoaded, audioData, averageCall, ctxSuspended, isAudioPlaying,
                    audioStartTime, session, flagVars, lyricVars, worldVars,
                    sceneVars, lastTime >>

\* click on the play button while playing
PauseClick ==
    /\ pc = "idle"
    /\ audioLoaded
    /\ isAudioPlaying
    /\ isAudioPlaying' = FALSE
    /\ pauseRecord' = IF currentStanzaIndex >= 0 /\ currentLineIndex >= 0
                      THEN [paused |-> TRUE, stanza |-> currentStanzaIndex,
                            line |-> currentLineIndex, cues |-> FiredCues]
                      ELSE NoPause
    /\ UNCHANGED << materialVars, now, pc, audioLoaded, audioData, averageCall, ctxSuspended, pendingResume,
                    audioStartTime, session, sceneTransitionTriggered,
                    explosionTriggered, returnTriggered, preventSecondExplosion, cueLog,
                    lyricVars, worldVars, sceneVars, lastTime >>

\* audioSource.onEnded
AudioEnded ==
    /\ pc = "idle"
    /\ isAudioPlaying
    /\ now - audioStartTime >= lyrics[Len(lyrics)][Len(lyrics[Len(lyrics)])]
    /\ isAudioPlaying' = FALSE
    /\ pauseRecord' = NoPause
    /\ UNCHANGED << materialVars, now, pc, audioLoaded, audioData, averageCall, ctxSuspended, pendingResume,
                    audioStartTime, session, sceneTransitionTriggered,
                    explosionTriggered, returnTriggered, preventSecondExplosion, cueLog,
                    lyricVars, worldVars, sceneVars, lastTime >>

\* the callback of the 6000 ms timer set with a stanza's last line: the
\* group is faded and its removal is scheduled 1000 ms later
FadeTimeout ==
    /\ pc = "idle"
    /\ stanzaFadeTimeout # Null
    /\ now' = Max(now, stanzaFadeTimeout)
    /\ stanzaFadeTimeout' = Null
    /\ removeTimeouts' = IF stanzaContainer # Null
                         THEN removeTimeouts \cup {now' + 1000}
                         ELSE removeTimeouts
    /\ UNCHANGED << materialVars, pc, audioVars, flagVars, worldVars, sceneVars, lastTime,
                    currentStanzaIndex, currentLineIndex, stanzaContainer,
                    stanzaInDom, leftInDom, oldStanzaTimeouts, tickLog >>

\* the callback of the 1000 ms timer: the group the variable holds at that
\* time is removed and the variable cleared
RemoveTimeout(due) ==
    /\ pc = "idle"
    /\ due \in removeTimeouts
    /\ now' = Max(now, due)
    /\ removeTimeouts' = removeTimeouts \ {due}
    /\ IF stanzaContainer # Null /\ stanzaInDom
       THEN stanzaContainer' = Null /\ stanzaInDom' = FALSE
       ELSE UNCHANGED << materialVars, stanzaContainer, stanzaInDom >>
    /\ UNCHANGED leftInDom
    /\ UNCHANGED << materialVars, pc, audioVars, flagVars, worldVars, sceneVars, lastTime,
                    currentStanzaIndex, currentLineIndex, stanzaFadeTimeout,
                    oldStanzaTimeouts, tickLog >>

\* the callback of the 800 ms timer of createNewStanza: it removes the group
\* the variable holds at that time
OldStanzaTimeout(due) ==
    /\ pc = "idle"
    /\ due \in oldStanzaTimeouts
    /\ now' = Max(now, due)
    /\ oldStanzaTimeouts' = oldStanzaTimeouts \ {due}
    /\ stanzaInDom' = IF stanzaContainer # Null THEN FALSE ELSE stanzaInDom
    /\ UNCHANGED leftInDom
    /\ UNCHANGED << materialVars, pc, audioVars, flagVars, worldVars, sceneVars, lastTime,
                    currentStanzaIndex, currentLineIndex, stanzaContainer,
                    stanzaFadeTimeout, removeTimeouts, tickLog >>

\* keydown Space
SpaceKey ==
    /\ pc = "idle"
    /\ IF ~sceneState.isTransitioning
       THEN sceneState' = transitionToScene(sceneState,
                IF sceneState.currentScene = "exterior" THEN "interior" ELSE "exterior")
       ELSE UNCHANGED sceneState
    /\ transitionRequest' = Request("key", sceneState.isTransitioning)
    /\ UNCHANGED << materialVars, now, pc, audioVars, flagVars, lyricVars, worldVars, lastTime >>

\* main.js removes a car that left the street from the scene graph
ExternalDetach(o) ==
    /\ pc = "idle"
    /\ objects[o].parent
    /\ objects' = [objects EXCEPT ![o].parent = FALSE]
    /\ UNCHANGED << materialVars, now, pc, audioVars, flagVars, lyricVars, sceneVars, lastTime,
                    blownApartObjects, originalObjectStates,
                    returnAnimationStartTime, returnElapsed, isReturnAnimationActive,
                    scatterChains, scatterPending >>

\* main.js spawns a car: a new object enters the scene graph.  A slot whose
\* former object is in neither map holds nothing the program can still
\* reach, so the new object takes it
createCar(o) ==
    /\ pc = "idle"
    /\ ~objects[o].parent
    /\ o \notin DOMAIN blownApartObjects
    /\ o \notin DOMAIN originalObjectStates
    /\ objects' = [objects EXCEPT ![o] =
                      [position |-> InitPosition(o), rotation |-> InitRotation(o),
                       parent |-> TRUE, blowApartDistance |-> Null,
                       rotationDirection |-> 0]]
    /\ materials' = [materials EXCEPT ![o] = InitMaterial(o)]
    /\ userData' = [userData EXCEPT ![o] = NoBaseline]
    /\ UNCHANGED << initialColorsStored, effectCall, now, pc, audioVars, flagVars, lyricVars, sceneVars, lastTime,
                    blownApartObjects, originalObjectStates,
                    returnAnimationStartTime, returnElapsed, isReturnAnimationActive,
                    scatterChains, scatterPending >>

\* the next-state relation over the inputs offered: frame instants, the
\* values of Math.random(), and the objects main.js may remove
NextOver(Instants, R, Removable) ==
    \/ \E t \in Instants : AdvanceTime(t)
    \/ Animate(R)
    \/ ScatterCallback(R)
    \/ LoadAudio
    \/ PlayClick
    \/ ResumeResolved
    \/ ResumeRejected
    \/ PauseClick
    \/ AudioEnded
    \/ FadeTimeout
    \/ \E due \in removeTimeouts : RemoveTimeout(due)
    \/ \E due \in oldStanzaTimeouts : OldStanzaTimeout(due)
    \/ SpaceKey
    \/ \E o \in Removable : ExternalDetach(o)
    \/ \E o \in Removable : createCar(o)

\* the cue timeline is followed in silence and with one draw of
\* 3 + Math.random() * 3 and of Math.sign(Math.random() - 0.5)
FixedRandom == [maxDistance |-> {3000}, sign |-> {1}, bins |-> {0}]

Next == NextOver(CueInstants, FixedRandom, {NumObjects})

Spec == Init /\ [][Next]_vars

(***************************************************************************)
(* The frequency analyser on its own: the buffer's lifecycle and calls of  *)
(* getAverageFrequency with any arguments                                  *)
(***************************************************************************)
otherThanAnalyser ==
    << materialVars, now, pc, ctxSuspended, pendingResume, isAudioPlaying, audioStartTime,
       session, flagVars, lyricVars, worldVars, sceneVars, lastTime >>

CallAverage(start, end) ==
    /\ averageCall' = [called |-> TRUE, start |-> start, end |-> end,
                       audio |-> getAverageFrequency(audioData, start, end),
                       main |-> mainGetAverageFrequency(audioLoaded, audioData,
                                                        start, end)]
    /\ UNCHANGED << materialVars, audioLoaded, audioData, otherThanAnalyser >>

\* audioAnalyser.getFrequencyData() fills the buffer
GetFrequencyData(bins) ==
    /\ audioLoaded
    /\ audioData' = bins
    /\ UNCHANGED << materialVars, audioLoaded, averageCall, otherThanAnalyser >>

LoadAnalyser ==
    /\ ~audioLoaded
    /\ audioLoaded' = TRUE
    /\ audioData' = [i \in 1..NumBins |-> 0]
    /\ UNCHANGED << materialVars, averageCall, otherThanAnalyser >>

NextFreq ==
    \/ \E start, end \in (0 - MaxArg)..MaxArg : CallAverage(start, end)
    \/ \E bins \in [1..NumBins -> BinChoices] : GetFrequencyData(bins)
    \/ LoadAnalyser

SpecFreq == Init /\ [][NextFreq]_vars

(***************************************************************************)
(* The scene controller is followed over the first seconds of playback,    *)
(* before the first caption and the explosion                              *)
(***************************************************************************)
SceneInstants == {1000, 4000, 5000, 5500, 6000, 8000, 10000, 12000}

NextScene ==
    \/ \E t \in SceneInstants : AdvanceTime(t)
    \/ Animate(FixedRandom)
    \/ LoadAudio
    \/ PlayClick
    \/ ResumeResolved
    \/ ResumeRejected
    \/ PauseClick
    \/ SpaceKey

SpecScene == Init /\ [][NextScene]_vars

(***************************************************************************)
(* The scatter tick is followed frame by frame: playback is started and    *)
(* left running, the first frame followed is the one of the explosion cue, *)
(* and the frames after it come one refresh interval apart                 *)
(***************************************************************************)
FrameMs == 16
ScatterFrames == 400

NextFrameTimes ==
    IF now < explosionTime
    THEN {explosionTime}
    ELSE { t \in {now + FrameMs} : t <= explosionTime + ScatterFrames * FrameMs }

NextScatter ==
    \/ \E t \in NextFrameTimes : AdvanceTime(t)
    \/ Animate(FixedRandom)
    \/ ScatterCallback(FixedRandom)
    \/ LoadAudio
    \/ PlayClick
    \/ ResumeResolved
    \/ ResumeRejected
    \/ FadeTimeout
    \/ \E due \in removeTimeouts : RemoveTimeout(due)

SpecScatter == Init /\ [][NextScatter]_vars

(***************************************************************************)
(* The global modulation on its own: one call of applyGlobalAudioEffect    *)
(* per frame interval with any band levels, while main.js removes and      *)
(* spawns cars                                                             *)
(***************************************************************************)
LevelChoices == {0, 500, 1000}
ColourInstants == {1000, 2000, 3000}

ApplyEffect(bass, mid, high) ==
    LET G0 == [materials |-> materials, userData |-> userData,
               initialColorsStored |-> initialColorsStored]
        G1 == applyGlobalAudioEffect(G0, objects, bass, mid, high)
    IN /\ pc = "idle"
       /\ ~effectCall.called
       /\ materials' = G1.materials
       /\ userData' = G1.userData
       /\ initialColorsStored' = G1.initialColorsStored
       /\ effectCall' = EffectCalled(effectCall, bass, mid, high)
       /\ UNCHANGED << now, pc, audioVars, flagVars, lyricVars, worldVars, sceneVars,
                       lastTime >>

NextColour ==
    \/ \E t \in ColourInstants : AdvanceTime(t)
    \/ Animate(FixedRandom)
    \/ \E bass, mid, high \in LevelChoices : ApplyEffect(bass, mid, high)
    \/ \E o \in Objects : ExternalDetach(o)
    \/ \E o \in Objects : createCar(o)

SpecColour == Init /\ [][NextColour]_vars

(***************************************************************************)
(* The lyric claims are followed on the cue times of the first stanza line *)
(* by line, its fade, the later stanzas and the end of the song            *)
(***************************************************************************)
LyricInstants ==
    {26500, 32500, 38500, 43500, 50000, 80000, 86000, 99000, 134000, 151000}

NextLyrics == NextOver(LyricInstants, FixedRandom, {NumObjects})

SpecLyrics == Init /\ [][NextLyrics]_vars

(***************************************************************************)
(* Claims                                                                  *)
(***************************************************************************)
Count(log, name) == Cardinality({ i \in 1..Len(log) : log[i] = name })

elapsedMs == now - audioStartTime

\* the step is a call of animate that reaches past the guard of
\* updateAudioReactiveElements
PlayingFrame == pc = "frame" /\ audioLoaded /\ isAudioPlaying

\* the step completes the return animation
ReturnCompletes == isReturnAnimationActive /\ ~isReturnAnimationActive'

\* C1: between one playback start and the next, each of the three one-shot
\* cue actions (transitionToScene('interior'), createExplosionEffect,
\* triggerReturnAnimation) is invoked at most once
C1_OneShotCuesAtMostOnce ==
    \A name \in {"sceneTransition", "explosion", "return"} : Count(cueLog, name) <= 1

\* all three cues have fired in a session and a later frame of the same
\* session has run with all three time conditions still true
C1_Witness ==
    /\ isAudioPlaying /\ pc = "idle" /\ lastTime = now
    /\ Count(cueLog, "sceneTransition") = 1
    /\ Count(cueLog, "explosion") = 1
    /\ Count(cueLog, "return") = 1
    /\ elapsedMs >= returnToPositionTime
    /\ returnAnimationStartTime < now

\* C2: every step that starts playback resets the clock (audioStartTime =
\* now), all four trigger flags and both lyric indices together
C2_StartResetsClockAndFlags ==
    [][session' # session =>
         /\ isAudioPlaying'
         /\ audioStartTime' = now'
         /\ ~sceneTransitionTriggered' /\ ~explosionTriggered'
         /\ ~returnTriggered' /\ ~preventSecondExplosion'
         /\ currentStanzaIndex' = -1 /\ currentLineIndex' = -1]_vars

\* just after a restart that followed a completed return (the flags were
\* all set before it): the clock reads 0 and nothing has run since
C2_Witness ==
    /\ session = 2 /\ isAudioPlaying /\ audioStartTime = now /\ lastTime = now
    /\ returnAnimationStartTime > 0 /\ ~isReturnAnimationActive
    /\ ~preventSecondExplosion /\ ~explosionTriggered /\ ~returnTriggered
    /\ ~sceneTransitionTriggered

\* C3: when a return animation completes, every object of the scatter set
\* that is still attached to the scene graph has a recorded original
\* transform and is exactly at it, in position and in rotation
C3_ReturnEndsAtOriginal ==
    [][ReturnCompletes =>
         \A o \in DOMAIN blownApartObjects' :
            objects'[o].parent =>
               /\ o \in DOMAIN originalObjectStates'
               /\ objects'[o].position = originalObjectStates'[o].position
               /\ objects'[o].rotation = originalObjectStates'[o].rotation]_vars

\* C4: the completion of a return sets preventSecondExplosion; from then on
\* the flag stays true and the explosion cue does not fire, until the next
\* playback start
C4_SuppressionHoldsUntilRestart ==
    [][/\ ReturnCompletes => preventSecondExplosion'
       /\ (preventSecondExplosion /\ session' = session) =>
             /\ preventSecondExplosion'
             /\ Count(cueLog', "explosion") = Count(cueLog, "explosion")
             /\ explosionTriggered' = explosionTriggered]_vars

\* a frame has observed the explosion time with the suppression flag set,
\* and has not fired the explosion
C4_Witness ==
    /\ preventSecondExplosion /\ isAudioPlaying /\ lastTime = now /\ pc = "idle"
    /\ elapsedMs >= explosionTime
    /\ ~explosionTriggered /\ Count(cueLog, "explosion") = 0

\* C5: within a session the return cue fires only after the explosion cue
\* of that session has fired
C5_ReturnOnlyAfterExplosion ==
    \A i \in 1..Len(cueLog) :
        cueLog[i] = "return" => \E j \in 1..(i - 1) : cueLog[j] = "explosion"

\* one frame has jumped past both cue times: the explosion's first scatter
\* pass is the only one run and the return was triggered in the same frame
C5_Witness ==
    /\ Count(cueLog, "explosion") = 1 /\ Count(cueLog, "return") = 1
    /\ returnAnimationStartTime = now /\ lastTime = now /\ isReturnAnimationActive
    /\ scatterChains = 1 /\ scatterPending = 0
    /\ elapsedMs >= returnToPositionTime

\* C6: an explosion that fires when original transforms are already
\* recorded leaves the original-transform map unchanged
C6_CaptureOnlyOnce ==
    [][(~explosionTriggered /\ explosionTriggered'
            /\ DOMAIN originalObjectStates # {}) =>
         originalObjectStates' = originalObjectStates]_vars

\* a second explosion has run on objects that were scattered at the time
\* (its force was computed from a scattered position) and the recorded
\* originals are still the rest pose
C6_Witness ==
    /\ session = 2 /\ explosionTriggered /\ ~returnTriggered
    /\ returnAnimationStartTime = 0
    /\ \E o \in DOMAIN blownApartObjects :
          /\ o \in DOMAIN originalObjectStates
          /\ blownApartObjects[o].force # Force(originalObjectStates[o].position)
          /\ originalObjectStates[o].position = InitPosition(o)
          /\ originalObjectStates[o].rotation = InitRotation(o)
          /\ objects[o].position # InitPosition(o)

\* C7: within a session currentStanzaIndex never decreases, a stanza is
\* activated only with an index above the current one, and currentLineIndex
\* decreases only in a step that activates a new stanza
C7_LyricIndicesMonotone ==
    [][session' = session =>
         /\ currentStanzaIndex' >= currentStanzaIndex
         /\ (currentLineIndex' >= currentLineIndex
                \/ currentStanzaIndex' > currentStanzaIndex)
         /\ (PlayingFrame =>
               \A i \in 1..Len(tickLog') :
                  tickLog'[i][1] = "stanza" => tickLog'[i][2] > currentStanzaIndex)]_vars

\* the second stanza has just been activated over the first one, whose
\* caption group was still displayed
C7_Witness ==
    /\ currentStanzaIndex = 1 /\ currentLineIndex = 0 /\ lastTime = now
    /\ oldStanzaTimeouts = {now + 800}
    /\ Len(tickLog) = 2 /\ tickLog[1] = << "stanza", 1 >>
    /\ tickLog[2] = << "line", 1, 0 >>

\* C8: a frame that observes elapsed >= 5000 while playing with
\* currentScene = 'exterior' leaves exactly one transitionToScene('interior')
\* call in the session, and no later step of the session adds another
C8_SceneCueExactlyOnce ==
    [][/\ (PlayingFrame /\ elapsedMs >= sceneTransitionTime
              /\ sceneState.currentScene = "exterior") =>
            Count(cueLog', "sceneTransition") = 1
       /\ (session' = session /\ Count(cueLog, "sceneTransition") = 1) =>
            Count(cueLog', "sceneTransition") = 1]_vars

\* the cue fired in the frame at 5000 ms and the frame at 5001 ms has run:
\* the transition it started is one millisecond old and the scene is still
\* the exterior
C8_Witness ==
    /\ isAudioPlaying /\ elapsedMs = 5001 /\ lastTime = now /\ pc = "idle"
    /\ cueLog = << "sceneTransition" >> /\ sceneTransitionTriggered
    /\ sceneState.currentScene = "exterior"
    /\ sceneState.isTransitioning /\ sceneState.nextScene = "interior"
    /\ sceneState.doorOpeningProgress = 1

\* the line events of a frame
LineEvents(log) == { i \in 1..Len(log) : log[i][1] = "line" }

\* C9: one frame reveals at most one lyric line: a line of the active stanza
\* that is due, and the one right after the last line shown (line 0 when the
\* stanza was activated in this frame); the frame that jumps from 0 to 26500
\* ms activates stanza 0 and reveals exactly its line 0
C9_OneLinePerTick ==
    [][PlayingFrame =>
         /\ Cardinality(LineEvents(tickLog')) <= 1
         /\ \A i \in LineEvents(tickLog') :
               /\ tickLog'[i][2] = currentStanzaIndex'
               /\ lyrics[tickLog'[i][2] + 1][tickLog'[i][3] + 1] <= elapsedMs
               /\ tickLog'[i][3] =
                     (IF currentStanzaIndex' = currentStanzaIndex
                      THEN currentLineIndex + 1 ELSE 0)
         /\ (currentStanzaIndex = -1 /\ elapsedMs = lyrics[1][1]) =>
               tickLog' = << << "stanza", 0 >>, << "line", 0, 0 >> >>]_vars

\* the first frame of a session started at 0 has run at 26500 ms (the scene
\* transition it also triggered has not advanced yet): stanza 0 is active
\* with line 0 revealed
C9_Witness ==
    /\ isAudioPlaying /\ elapsedMs = 26500 /\ lastTime = now
    /\ tickLog = << << "stanza", 0 >>, << "line", 0, 0 >> >>
    /\ currentStanzaIndex = 0 /\ currentLineIndex = 0
    /\ sceneState.isTransitioning /\ sceneState.doorOpeningProgress = 0
    /\ sceneState.transitionProgress = 0

\* C10: while the analyser is uninitialised (empty buffer),
\* getAverageFrequency returns exactly 0 for every pair of integer
\* arguments, in audio.js and in main.js
C10_UninitialisedAverageIsZero ==
    (~audioLoaded /\ averageCall.called) =>
        (averageCall.audio = Zero /\ averageCall.main = Zero)

\* the sum of the bins of data with 0-based index in lo..(hi - 1)
RECURSIVE BinTotal(_, _, _)
BinTotal(data, lo, hi) ==
    IF hi <= lo THEN 0 ELSE BinTotal(data, lo, hi - 1) + data[hi]

\* the mean of bins [start, min(end, length)) over 255, 0 for an empty range
MeanOver255(data, start, end) ==
    LET upper == Min(end, Len(data))
    IN IF upper <= start THEN Zero
       ELSE Number(BinTotal(data, start, upper), upper - start)

\* C11: with an initialised buffer of bins in 0..255, a call of
\* getAverageFrequency(start, end) with 0 <= start < end yields the mean of
\* bins [start, min(end, bufferLength)) divided by 255, a value in [0, 1],
\* and 0 when the clamped range is empty
C11_AverageIsMeanOver255 ==
    [][(audioLoaded /\ averageCall' # averageCall
          /\ 0 <= averageCall'.start /\ averageCall'.start < averageCall'.end) =>
         LET r == averageCall'.audio
         IN /\ r = MeanOver255(audioData, averageCall'.start, averageCall'.end)
            /\ averageCall'.main = r
            /\ ~r.nan /\ r.length > 0
            /\ 0 <= r.sum /\ r.sum <= 255 * r.length
            /\ (Min(averageCall'.end, Len(audioData)) <= averageCall'.start => r = Zero)]_vars

\* a call whose end lies beyond the buffer has averaged the two bins the
\* clamped range holds
C11_Witness ==
    /\ audioLoaded /\ averageCall.called
    /\ averageCall.start = 1 /\ averageCall.end = NumBins + 1
    /\ audioData = << 0, 100, 255 >>
    /\ averageCall.audio = Number(355, 2)
    /\ averageCall.main = Number(355, 2)

\* the step is a pass of applyGlobalAudioEffect at silence
SilentPass ==
    /\ ~effectCall.called /\ effectCall'.called
    /\ effectCall'.bass = 0 /\ effectCall'.mid = 0 /\ effectCall'.high = 0

\* the meshes the pass modulates: in the scene, with a captured baseline
Modulated(o) == objects'[o].parent /\ userData'[o].initialColor # NoColor

\* the opacity baseline is one the pass uses
OpacityModulated(o) ==
    /\ materials'[o].transparent
    /\ userData'[o].initialOpacity # Null /\ userData'[o].initialOpacity # 0

\* C12 as stated: a pass at silence leaves colour, emissive and opacity of
\* every modulated mesh exactly equal to the captured baseline
C12_IdentityAtSilence ==
    [][SilentPass =>
         \A o \in Objects : Modulated(o) =>
            /\ materials'[o].color = userData'[o].initialColor
            /\ materials'[o].emissive = userData'[o].initialEmissive
            /\ (OpacityModulated(o) =>
                   materials'[o].opacity = userData'[o].initialOpacity)]_vars

\* C12 amended: a pass at silence leaves the emissive of every modulated
\* mesh exactly equal to its baseline, its colour equal to the baseline up
\* to the rounding of the HSL re-encoding, and its opacity at 0.9 times the
\* baseline opacity, whatever the levels of the earlier passes
C12_SilenceFromBaseline ==
    [][SilentPass =>
         \A o \in Objects : Modulated(o) =>
            /\ \A i \in 1..3 :
                  Abs(materials'[o].color[i] - userData'[o].initialColor[i])
                     <= 2     \* the rounding of the re-encoding in 1/1000
            /\ materials'[o].emissive = userData'[o].initialEmissive
            /\ (OpacityModulated(o) =>
                   materials'[o].opacity = (9 * userData'[o].initialOpacity) \div 10)]_vars

\* a pass at silence has run after a louder one on a transparent mesh, which
\* is at 0.9 times its baseline opacity and at its baseline emissive
C12_Witness ==
    /\ effectCall.called /\ effectCall.loudBefore
    /\ effectCall.bass = 0 /\ effectCall.mid = 0 /\ effectCall.high = 0
    /\ \E o \in Objects :
          /\ objects[o].parent /\ materials[o].transparent
          /\ userData[o].initialOpacity = 800 /\ materials[o].opacity = 720
          /\ materials[o].emissive = userData[o].initialEmissive
    /\ \E o \in Objects :
          /\ objects[o].parent /\ userData[o].initialColor # NoColor
          /\ Max3(userData[o].initialColor) # Min3(userData[o].initialColor)

\* the step carries a transition request that arrives while a transition is
\* in flight
RequestInFlight(source) ==
    /\ transitionRequest' # transitionRequest
    /\ transitionRequest' = Request(source, TRUE)

\* C13: a transition request arriving while a transition is in flight is
\* ignored: the spacebar leaves the scene state as it is, and the cue leaves
\* it as the frame's own updateSceneTransition made it, so nextScene,
\* currentScene and the two progress values are not restarted
C13_RequestInFlightIgnored ==
    [][/\ RequestInFlight("key") => sceneState' = sceneState
       /\ RequestInFlight("cue") =>
             /\ sceneState' = updateSceneTransition(sceneState, now - lastTime)
             /\ sceneState'.isTransitioning
             /\ sceneState'.nextScene = sceneState.nextScene
             /\ sceneState'.currentScene = sceneState.currentScene
             /\ sceneState'.transitionProgress >= sceneState.transitionProgress
             /\ sceneState'.doorOpeningProgress >= sceneState.doorOpeningProgress]_vars

\* the cue asked for the interior while the transition started by the
\* spacebar was in flight, and that transition went on
C13_Witness ==
    /\ transitionRequest = Request("cue", TRUE)
    /\ sceneTransitionTriggered
    /\ sceneState.isTransitioning /\ sceneState.nextScene = "interior"
    /\ sceneState.doorOpeningProgress > 0

DoorOpen == 0 - (PI \div 2)

\* the step completes a transition
Completes == sceneState.isTransitioning /\ ~sceneState'.isTransitioning

CompletedAsRequested ==
    Completes =>
       /\ sceneState'.currentScene = sceneState.nextScene
       /\ sceneState'.nextScene = "none"
       /\ sceneState'.transitionProgress = TRANSITION_DURATION
       /\ sceneState'.doorOpeningProgress = doorAnimationDuration
       /\ ~sceneState'.doorOpening
       /\ sceneState'.doorRotationY = DoorOpen

AfterPause(event) ==
    IF event[1] = "stanza"
    THEN event[2] > pauseRecord.stanza
    ELSE \/ event[2] > pauseRecord.stanza
         \/ event[2] = pauseRecord.stanza /\ event[3] > pauseRecord.line

\* C15: after a pause in the middle of a stanza and a resume, no lyric cue
\* and no one-shot cue that had fired before the pause fires again: the
\* resume does not rewind the cue sheet
C15_ResumeDoesNotRewind ==
    [][PlayingFrame =>
         /\ \A i \in 1..Len(tickLog') : AfterPause(tickLog'[i])
         /\ \A cue \in FiredCues' \ FiredCues : cue \notin pauseRecord.cues]_vars

\* C16: when the analyser is not ready or playback is not active, a frame's
\* call of updateAudioReactiveElements changes no trigger flag, lyric index,
\* caption timer, return-animation state, object transform or material, and
\* invokes no cue action and no modulation pass, whatever the time
C16_GuardedCallIsNoOp ==
    [][(pc = "frame" /\ ~(audioLoaded /\ isAudioPlaying)) =>
         /\ UNCHANGED << sceneTransitionTriggered, explosionTriggered, returnTriggered,
                         preventSecondExplosion, cueLog >>
         /\ UNCHANGED << currentStanzaIndex, currentLineIndex, stanzaContainer,
                         stanzaInDom, stanzaFadeTimeout, removeTimeouts,
                         oldStanzaTimeouts >>
         /\ tickLog' = << >>
         /\ UNCHANGED << isReturnAnimationActive, returnAnimationStartTime, objects,
                         blownApartObjects, originalObjectStates, scatterChains >>
         /\ UNCHANGED << materials, userData, initialColorsStored, audioData >>
         /\ ~effectCall'.called]_vars

\* a frame has run during a pause at a time when the explosion cue and the
\* second line of the stanza were due, and neither has fired
C16_Witness ==
    /\ pc # "frame" /\ lastTime = now
    /\ audioLoaded /\ ~isAudioPlaying /\ pauseRecord.paused
    /\ elapsedMs >= explosionTime /\ ~explosionTriggered
    /\ currentStanzaIndex = 0 /\ currentLineIndex = 0
    /\ elapsedMs >= lyrics[1][2]

\* the step is a frame that advances a return animation already under way
ReturnAdvances ==
    /\ PlayingFrame /\ isReturnAnimationActive
    /\ returnElapsed # Null /\ returnElapsed' # returnElapsed

\* C17: a return animation in flight advances by no more than the time of
\* the frame that advances it, so a pause does not add the paused duration
\* to its progress: after the resume it continues from where it was
C17_ReturnContinuesFromPause ==
    [][ReturnAdvances => returnElapsed' - returnElapsed <= now - lastTime]_vars

\* the step is a callback of the scatter tick that runs while playback is
\* paused
ScatterTickWhilePaused == pc = "raf" /\ scatterPending > 0 /\ pauseRecord.paused

\* C18: while playback is paused the scatter tick advances no object's
\* blowApartDistance and moves no object
C18_ScatterFrozenWhilePaused ==
    [][ScatterTickWhilePaused =>
         \A o \in Objects :
            /\ objects'[o].blowApartDistance = objects[o].blowApartDistance
            /\ objects'[o].position = objects[o].position
            /\ objects'[o].rotation = objects[o].rotation]_vars

\* the distance an object has travelled in the scatter
Travelled(ob) == IF ob.blowApartDistance = Null THEN 0 ELSE ob.blowApartDistance

\* the step is a callback of the scatter tick that reschedules itself
TickReschedules == pc = "raf" /\ scatterPending > 0 /\ scatterChains' >= scatterChains

\* C19: after an explosion the scatter tick eventually stops rescheduling
\* itself: every callback that reschedules itself has taken some object
\* nearer to its maxDistance, the only condition that ends the chain
C19_ScatterTickStops ==
    [][TickReschedules =>
         \E o \in DOMAIN blownApartObjects :
            Travelled(objects'[o]) > Travelled(objects[o])]_vars

\* in every behaviour followed, a chain that has started is never ended
ChainNeverEnds == [][scatterChains > 0 => scatterChains' > 0]_vars

\* the step is the callback of a removal timer set by createNewStanza, run
\* while the group of the new stanza is displayed
EarlierGroupRemovalDue ==
    /\ \E due \in oldStanzaTimeouts : oldStanzaTimeouts' = oldStanzaTimeouts \ {due}
    /\ stanzaContainer # Null /\ stanzaInDom /\ leftInDom # {}

\* C20: when a new stanza became due while the group of an earlier stanza
\* was displayed, the removal timer removes the earlier group, and the new
\* group is still attached after the timer has fired
C20_RemovalTakesEarlierGroup ==
    [][EarlierGroupRemovalDue =>
         /\ stanzaContainer' = stanzaContainer /\ stanzaInDom'
         /\ leftInDom' # leftInDom /\ leftInDom' \subseteq leftInDom]_vars

\* the step is a frame in which updateReturnAnimation runs and no explosion
\* is started
ReturnTick ==
    /\ PlayingFrame /\ returnElapsed' # returnElapsed
    /\ explosionTriggered' = explosionTriggered

AfterReturn == preventSecondExplosion /\ ~isReturnAnimationActive

\* C22: after a return animation has completed, and until the next
\* explosion, no object in the scene graph has its position or rotation
\* changed: no scatter tick is left running
C22_AtRestAfterReturn ==
    [][(AfterReturn /\ preventSecondExplosion') =>
         \A o \in Objects :
            (objects[o].parent /\ objects'[o].parent) =>
               /\ objects'[o].position = objects[o].position
               /\ objects'[o].rotation = objects[o].rotation]_vars

\* the step is a scatter callback of a frame whose return tick has run
ScatterTickAfterReturnTick ==
    /\ pc = "raf" /\ scatterPending > 0
    /\ isReturnAnimationActive /\ isAudioPlaying
    /\ returnElapsed = now - returnAnimationStartTime

\* C23: while a return animation is active the scatter tick does not run:
\* in a frame in which the return tick has written an object, no scatter
\* callback writes the position or rotation of that object
C23_NoScatterDuringReturn ==
    [][ScatterTickAfterReturnTick =>
         \A o \in DOMAIN blownApartObjects :
            (objects[o].parent /\ o \in DOMAIN originalObjectStates) =>
               /\ objects'[o].position = objects[o].position
               /\ objects'[o].rotation = objects[o].rotation]_vars

\* the step is the first playing frame of the session that observes the
\* explosion time reached
ExplosionTimeObserved ==
    PlayingFrame /\ ~explosionTriggered /\ elapsedMs >= explosionTime

\* C24: in every session the first frame that observes 66000 ms of playback
\* fires the explosion, whatever happened in earlier sessions
C24_ExplosionFiresInEverySession ==
    [][ExplosionTimeObserved => explosionTriggered']_vars

\* the step fires the explosion cue
ExplosionFires == ~explosionTriggered /\ explosionTriggered'

\* C25: the explosion never fires while a return animation is active
C25_NoExplosionDuringReturn ==
    [][isReturnAnimationActive => ~ExplosionFires]_vars

\* C26: at most one animateBlowApart callback chain is alive at any time
C26_AtMostOneScatterChain == scatterChains <= 1

\* the step sets the scene-transition latch
LatchSet == ~sceneTransitionTriggered /\ sceneTransitionTriggered'

\* the scene is interior or a transition to interior is in flight
TowardsInterior(s) ==
    \/ s.currentScene = "interior"
    \/ s.isTransitioning /\ s.nextScene = "interior"

\* C27: at the end of a frame that sets sceneTransitionTriggered the scene is
\* interior or a transition with target interior is in flight
C27_LatchImpliesInterior == [][LatchSet => TowardsInterior(sceneState')]_vars

\* the cue fired in a frame whose update completed a transition to interior,
\* so the request made from the copy 'exterior' was ignored
C27_Witness ==
    /\ sceneTransitionTriggered /\ lastTime = now /\ pc # "frame"
    /\ "sceneTransition" \in FiredCues
    /\ transitionRequest = NoRequest
    /\ sceneState.currentScene = "interior" /\ ~sceneState.isTransitioning
    /\ now - audioStartTime = sceneTransitionTime

\* C28: nextScene is set exactly while a transition is in flight, and the
\* door-open phase runs only while a transition is in flight
C28_SceneControllerConsistent ==
    /\ (sceneState.nextScene # "none") <=> sceneState.isTransitioning
    /\ sceneState.doorOpening => sceneState.isTransitioning

\* the camera has started to move while the door is still opening
C28_Witness ==
    /\ lastTime = now /\ pc # "frame"
    /\ sceneState.doorOpening /\ sceneState.isTransitioning
    /\ sceneState.nextScene = "interior"
    /\ sceneState.transitionProgress > 0
    /\ 2 * sceneState.doorOpeningProgress > doorAnimationDuration

\* the stanza events of a frame
StanzaEvents(log) == { i \in 1..Len(log) : log[i][1] = "stanza" }

\* C29: a stanza activation raises currentStanzaIndex by exactly 1 and sets
\* currentLineIndex to -1, and a line reveal raises currentLineIndex by
\* exactly 1, whatever the jump of the elapsed time
C29_IndicesStepByOne ==
    [][PlayingFrame =>
         LET activated == StanzaEvents(tickLog') # {}
             lineBefore == IF activated THEN -1 ELSE currentLineIndex
             revealed == LineEvents(tickLog') # {}
         IN /\ \A i \in StanzaEvents(tickLog') :
                  tickLog'[i][2] = currentStanzaIndex + 1
            /\ currentStanzaIndex' =
                  currentStanzaIndex + (IF activated THEN 1 ELSE 0)
            /\ \A i \in LineEvents(tickLog') : tickLog'[i][3] = lineBefore + 1
            /\ currentLineIndex' = lineBefore + (IF revealed THEN 1 ELSE 0)]_vars

\* the first frame of a session runs when the first lines of two stanzas and
\* two lines of the first stanza are due: it has activated stanza 0 and
\* revealed its line 0
C29_Witness ==
    /\ isAudioPlaying /\ lastTime = now /\ pc # "frame"
    /\ elapsedMs >= lyrics[2][1]
    /\ tickLog = << << "stanza", 0 >>, << "line", 0, 0 >> >>
    /\ currentStanzaIndex = 0 /\ currentLineIndex = 0

\* a playing frame at or after the scene cue time with the cue still armed
ArmedFrame ==
    PlayingFrame /\ ~sceneTransitionTriggered /\ elapsedMs >= sceneTransitionTime

\* C30: from 5000 ms on, a playing frame that observes currentScene interior
\* leaves the scene cue armed and the first one that observes exterior fires
\* it, however late
C30_CueArmedUntilExterior ==
    [][ArmedFrame =>
         (sceneTransitionTriggered' <=> sceneState.currentScene = "exterior")]_vars

\* the cue has fired 8000 ms into a session started at 4000 ms, in the frame
\* after the one that observed interior 6000 ms into the session and
\* completed the spacebar transition back to exterior
C30_Witness ==
    /\ sceneTransitionTriggered /\ isAudioPlaying
    /\ lastTime = now /\ pc # "frame"
    /\ audioStartTime = 4000 /\ elapsedMs = 8000
    /\ sceneState.currentScene = "exterior"
    /\ sceneState.isTransitioning /\ sceneState.nextScene = "interior"
    /\ sceneState.doorOpeningProgress = 0 /\ sceneState.transitionProgress = 0
    /\ sceneState.doorRotationY = DoorOpen

====
